---- MODULE Spec2Model ----
(***************************************************************************)
(* The transformation relay of the 2000s photo flashback application:      *)
(*   - the Relay Service, the Netlify function `handler`                   *)
(*     (src/src/components/Loader.tsx, lines 85-147);                      *)
(*   - the Relay Client, `transformImage`                                  *)
(*     (src/services/geminiService.ts, lines 4-38).                        *)
(* A request reaches the handler either from transformImage or directly    *)
(* (any method, any body); the external model and the network are the      *)
(* environment.                                                            *)
(***************************************************************************)
EXTENDS Integers, Sequences, FiniteSets, TLC

VARIABLES
    apiKey,        \* process.env.API_KEY
    hpc,           \* position of the handler invocation
    origin,        \* who sent the request the handler is serving
    event,         \* the handler's event: httpMethod and body
    fields,        \* base64ImageData, mimeType, style after destructuring
    caught,        \* the exception the handler's catch block received
    modelCalls,    \* calls of ai.models.generateContent in this invocation
    modelRequest,  \* what the handler handed to generateContent
    modelResult,   \* what generateContent returned
    hresp,         \* the handler's return value
    credRead,      \* process.env was read in this invocation
    bodyParsed,    \* JSON.parse(event.body) was evaluated in this invocation
    serverLog,     \* what console.error received on the server
    cpc,           \* position of the transformImage invocation
    cargs,         \* transformImage's arguments
    fetchCount,    \* calls of fetch in this invocation
    response,      \* the Response fetch resolved with
    cerr,          \* the exception transformImage's catch block received
    outcome,       \* how the transformImage promise settled
    errorsRaised,  \* errors transformImage rejected with
    originalImage,    \* App state: the selected file, or none
    transformedImage, \* App state: the data URL of the result, or null
    appState,         \* App state: 'idle' | 'loading' | 'displaying' | 'error'
    errorMessage,     \* App state: the message shown on failure
    selectedStyle,    \* App state: the chosen TransformStyle
    tpc,              \* position of the handleTransform invocation
    captured,         \* originalImage and selectedStyle in handleTransform's closure
    outstanding       \* handleTransform invocations that have not finished

hvars == <<hpc, origin, event, fields, caught, modelCalls, modelRequest,
           modelResult, hresp, credRead, bodyParsed, serverLog>>
cvars == <<cpc, cargs, fetchCount, response, cerr, outcome, errorsRaised>>
avars == <<originalImage, transformedImage, appState, errorMessage, selectedStyle,
           tpc, captured, outstanding>>
vars == <<apiKey, hvars, cvars, avars>>

----------------------------------------------------------------------------
(* JavaScript values, as far as the relay looks at them.                   *)

Undef == [t |-> "undefined", v |-> ""]
Null == [t |-> "null", v |-> ""]
Str(s) == [t |-> "string", v |-> s]
Num(s) == [t |-> "number", v |-> s]

\* ToBoolean: undefined, null, "" and 0 are falsy.
Truthy(x) ==
    CASE x.t = "undefined" -> FALSE
      [] x.t = "null" -> FALSE
      [] x.t = "string" -> x.v # ""
      [] x.t = "number" -> x.v # "0"

\* ToString, as `new Error(x)` applies it to its argument.
ToStr(x) ==
    CASE x.t = "undefined" -> "undefined"
      [] x.t = "null" -> "null"
      [] x.t = "string" -> x.v
      [] x.t = "number" -> x.v

\* A thrown value: an Error with its message, or something that is no Error.
Err(name, msg) == [isError |-> TRUE, name |-> name, message |-> msg]
NonError == [isError |-> FALSE, name |-> "string", message |-> ""]
NoErr == [isError |-> FALSE, name |-> "none", message |-> ""]

SyntaxErr == Err("SyntaxError", "Unexpected token in JSON")
NullTypeErr == Err("TypeError", "Cannot read properties of null")
UndefTypeErr == Err("TypeError", "Cannot read properties of undefined")

----------------------------------------------------------------------------
(* JSON on the wire.  An object maps every key the relay uses to a value,  *)
(* Undef standing for an absent key; its text is the list of its members.  *)

KeyOrder == <<"base64ImageData", "mimeType", "style", "error", "transformedBase64">>
Keys == {KeyOrder[i] : i \in DOMAIN KeyOrder}

EmptyObject == [k \in Keys |-> Undef]

\* { base64ImageData, mimeType, style }
RequestObject(b, m, s) ==
    [k \in Keys |-> CASE k = "base64ImageData" -> b
                      [] k = "mimeType" -> m
                      [] k = "style" -> s
                      [] OTHER -> Undef]

\* { error: e }
ErrorObject(e) == [k \in Keys |-> IF k = "error" THEN e ELSE Undef]

\* { transformedBase64: d }
ResultObject(d) == [k \in Keys |-> IF k = "transformedBase64" THEN d ELSE Undef]

RECURSIVE MembersFrom(_, _)
MembersFrom(obj, i) ==
    IF i > Len(KeyOrder) THEN <<>>
    ELSE IF obj[KeyOrder[i]] = Undef
         THEN MembersFrom(obj, i + 1)
         ELSE <<(<<KeyOrder[i], obj[KeyOrder[i]]>>)>> \o MembersFrom(obj, i + 1)

\* JSON.stringify of an object: members whose value is undefined are dropped.
JsonStringify(obj) == [kind |-> "object", text |-> "", members |-> MembersFrom(obj, 1)]

TextBody(s) == [kind |-> "text", text |-> s, members |-> <<>>]
EmptyBody == [kind |-> "empty", text |-> "", members |-> <<>>]
NullBody == [kind |-> "null", text |-> "null", members |-> <<>>]
PrimitiveBody == [kind |-> "primitive", text |-> "42", members |-> <<>>]

Lookup(members, k) ==
    IF \E i \in DOMAIN members : members[i][1] = k
    THEN members[CHOOSE i \in DOMAIN members : members[i][1] = k][2]
    ELSE Undef

\* JSON.parse: throws a SyntaxError on text that is no JSON (the empty text
\* included); otherwise the value, of which the relay reads properties.
JsonParse(body) ==
    CASE body.kind \in {"text", "empty"} ->
            [threw |-> TRUE, error |-> SyntaxErr, isNull |-> FALSE, obj |-> EmptyObject]
      [] body.kind = "null" ->
            [threw |-> FALSE, error |-> NoErr, isNull |-> TRUE, obj |-> EmptyObject]
      [] body.kind = "primitive" ->
            [threw |-> FALSE, error |-> NoErr, isNull |-> FALSE, obj |-> EmptyObject]
      [] body.kind = "object" ->
            [threw |-> FALSE, error |-> NoErr, isNull |-> FALSE,
             obj |-> [k \in Keys |-> Lookup(body.members, k)]]

----------------------------------------------------------------------------
(* Bounds and input sets.                                                  *)

\* Longest list of parts the external model returns.
MaxParts == 2

Methods == {"POST", "GET", "PUT"}

\* The values process.env.API_KEY can have.
ApiKeys == {Undef, Str(""), Str("key")}

ImageVals == {Undef, Str(""), Str("aW1n")}
MimeVals == {Undef, Str(""), Str("image/png")}
StyleVals == {Undef, Str(""), Str("lofi"), Str("cutout"), Str("bogus"), Num("7")}

\* The bodies a request can carry: none, text that is no JSON, the JSON
\* texts null and 42, and JSON objects.
RequestBodies ==
    {EmptyBody, TextBody("{not json"), NullBody, PrimitiveBody}
    \cup {JsonStringify(RequestObject(b, m, s)) :
            b \in ImageVals, m \in MimeVals, s \in StyleVals}

\* A part of the model's response: with inlineData (and its data) or without.
Part(has, d) == [hasInlineData |-> has, data |-> d]
TextPart == Part(FALSE, Undef)
InlineDatas == {Undef, Str(""), Str("ZDE="), Str("ZDI=")}
Parts == {TextPart} \cup {Part(TRUE, d) : d \in InlineDatas}

PartLists == UNION {[1..n -> Parts] : n \in 0..MaxParts}

\* What generateContent can throw.
ModelErrors ==
    {Err("TypeError", "fetch failed"),
     Err("ApiError", "429 quota exceeded"),
     Err("ApiError", "403 API key not valid")}

\* What generateContent can return: a response without candidates, one whose
\* candidate has no parts, or one with a list of parts.
ModelResponse(shape, parts) == [shape |-> shape, parts |-> parts]
NoModelResult == ModelResponse("none", <<>>)
ModelResponses ==
    {ModelResponse("no_candidates", <<>>), ModelResponse("no_parts", <<>>)}
    \cup {ModelResponse("parts", ps) : ps \in PartLists}

----------------------------------------------------------------------------
(* The Relay Service: handler, src/src/components/Loader.tsx:85-147.       *)

LOFI_PROMPT == "LOFI_PROMPT"
CUTOUT_PROMPT == "CUTOUT_PROMPT"

ConfigErrorMessage == "Server configuration error: API key is not set up."
MissingMessage == "Missing required image data or style."
NoImageMessage == "The AI model did not return an image. Please try a different photo."
InternalMessage == "An internal error occurred while transforming the image."

Reply(status, body) == [statusCode |-> status, body |-> body]
NoReply == Reply(0, EmptyBody)
NoFields == [base64ImageData |-> Undef, mimeType |-> Undef, style |-> Undef]
NoModelRequest == [data |-> Undef, mimeType |-> Undef, text |-> ""]
NoEvent == [httpMethod |-> "", body |-> EmptyBody]

\* Mutant of MethodAllowed: only GET is turned away.
MethodNotGet(m) == m # "GET"

\* event.httpMethod !== 'POST', negated
MethodAllowed(m) == m = "POST"

\* Mutant of CredentialMissing: an empty API_KEY counts as set.
CredentialUndefined(k) == k = Undef

\* !API_KEY
CredentialMissing(k) == ~Truthy(k)

\* Mutant of BodyInvalid: mimeType is not looked at.
BodyInvalidNoMime(f) ==
    \/ ~Truthy(f.base64ImageData)
    \/ ~Truthy(f.style)

\* !base64ImageData || !mimeType || !style
BodyInvalid(f) ==
    \/ ~Truthy(f.base64ImageData)
    \/ ~Truthy(f.mimeType)
    \/ ~Truthy(f.style)

\* style === 'lofi' ? LOFI_PROMPT : CUTOUT_PROMPT
PromptFor(style) == IF style = Str("lofi") THEN LOFI_PROMPT ELSE CUTOUT_PROMPT

\* event.body || '{}'
BodyText(body) == IF body.kind = "empty" THEN JsonStringify(EmptyObject) ELSE body

\* Mutant of FirstInline: the last part with inlineData wins.
LastInline(parts) ==
    IF \E i \in DOMAIN parts : parts[i].hasInlineData
    THEN CHOOSE i \in DOMAIN parts :
            /\ parts[i].hasInlineData
            /\ \A j \in (i + 1)..Len(parts) : ~parts[j].hasInlineData
    ELSE 0

\* The for loop over the parts: the index of the first part with inlineData,
\* 0 when the loop ends without returning.
FirstInline(parts) ==
    IF \E i \in DOMAIN parts : parts[i].hasInlineData
    THEN CHOOSE i \in DOMAIN parts :
            /\ parts[i].hasInlineData
            /\ \A j \in 1..(i - 1) : ~parts[j].hasInlineData
    ELSE 0

\* The value the handler returns after the model's response arrived.
MappedReply(parts) ==
    IF FirstInline(parts) # 0
    THEN Reply(200, JsonStringify(ResultObject(parts[FirstInline(parts)].data)))
    ELSE Reply(500, JsonStringify(ErrorObject(Str(NoImageMessage))))

\* Mutant of CatchReply: the exception's message is sent to the caller.
CatchReplyLeaky(error) == Reply(500, JsonStringify(ErrorObject(Str(error.message))))

\* The value the catch block returns.
CatchReply(error) == Reply(500, JsonStringify(ErrorObject(Str(InternalMessage))))

----------------------------------------------------------------------------
(* The state of App, src/services/geminiService.ts:69-76.                  *)

\* A File: its declared type and its content, encoded.
File(type, data) == [type |-> type, data |-> data]
NoFile == File("", "")
Files == {File("image/png", "aW1n"), File("image/jpeg", "aW1n"), File("image/png", "")}
NoCapture == [image |-> NoFile, style |-> ""]

\* The useState initial values of lines 70-74; no handleTransform is running.
AppInit ==
    /\ originalImage = NoFile
    /\ transformedImage = Null
    /\ appState = "idle"
    /\ errorMessage = ""
    /\ selectedStyle = "lofi"
    /\ tpc = "idle"
    /\ captured = NoCapture
    /\ outstanding = 0

\* Requests that do not come from the application are served while the
\* application is as it was mounted.
AppUntouched == AppInit

----------------------------------------------------------------------------

\* The locals of a handler invocation before its first statement.
HandlerFresh ==
    /\ fields' = NoFields
    /\ caught' = NoErr
    /\ modelCalls' = 0
    /\ modelRequest' = NoModelRequest
    /\ modelResult' = NoModelResult
    /\ hresp' = NoReply
    /\ credRead' = FALSE
    /\ bodyParsed' = FALSE
    /\ serverLog' = NoErr

\* No handler invocation at all (a transformImage invocation begins).
HandlerIdle ==
    /\ hpc' = "idle"
    /\ origin' = "none"
    /\ event' = NoEvent
    /\ HandlerFresh

NoResponse == [ok |-> FALSE, status |-> 0, body |-> EmptyBody]
NoArgs == [base64ImageData |-> "", mimeType |-> "", style |-> ""]
Pending == [kind |-> "pending", value |-> Undef, message |-> ""]

\* No transformImage invocation (a direct request begins).
ClientIdle ==
    /\ cpc' = "idle"
    /\ cargs' = NoArgs
    /\ fetchCount' = 0
    /\ response' = NoResponse
    /\ cerr' = NoErr
    /\ outcome' = Pending
    /\ errorsRaised' = 0

\* Both invocations run to their end before another begins.
HandlerAtRest == hpc \in {"idle", "done"}
ClientAtRest == cpc \in {"idle", "returned", "threw"}

\* The platform invokes the handler with a request that did not come from
\* transformImage: any method, any body.
DirectRequest ==
    /\ HandlerAtRest
    /\ ClientAtRest
    /\ AppUntouched
    /\ \E m \in Methods, b \in RequestBodies :
          event' = [httpMethod |-> m, body |-> b]
    /\ hpc' = "received"
    /\ origin' = "direct"
    /\ HandlerFresh
    /\ ClientIdle
    /\ UNCHANGED <<avars, apiKey>>

\* Lines 86-88: the method check.
CheckMethod ==
    /\ hpc = "received"
    /\ IF MethodAllowed(event.httpMethod)
       THEN /\ hpc' = "method_checked"
            /\ UNCHANGED hresp
       ELSE /\ hpc' = "done"
            /\ hresp' = Reply(405, TextBody("Method Not Allowed"))
    /\ UNCHANGED <<avars, apiKey, origin, event, fields, caught, modelCalls, modelRequest,
                   modelResult, credRead, bodyParsed, serverLog, cvars>>

\* Lines 90-97: the credential check.
CheckCredential ==
    /\ hpc = "method_checked"
    /\ credRead' = TRUE
    /\ IF CredentialMissing(apiKey)
       THEN /\ hpc' = "done"
            /\ hresp' = Reply(500, JsonStringify(ErrorObject(Str(ConfigErrorMessage))))
       ELSE /\ hpc' = "credential_checked"
            /\ UNCHANGED hresp
    /\ UNCHANGED <<avars, apiKey, origin, event, fields, caught, modelCalls, modelRequest,
                   modelResult, bodyParsed, serverLog, cvars>>

\* Lines 100-107: JSON.parse, the destructuring and the check of the fields.
\* JSON.parse throws on text that is no JSON, the destructuring throws on null;
\* both land in the catch block.
ValidateBody ==
    /\ hpc = "credential_checked"
    /\ bodyParsed' = TRUE
    /\ LET parsed == JsonParse(BodyText(event.body))
           f == [base64ImageData |-> parsed.obj["base64ImageData"],
                 mimeType |-> parsed.obj["mimeType"],
                 style |-> parsed.obj["style"]]
       IN  IF parsed.threw \/ parsed.isNull
           THEN /\ hpc' = "caught"
                /\ caught' = IF parsed.threw THEN parsed.error ELSE NullTypeErr
                /\ UNCHANGED <<fields, hresp>>
           ELSE /\ fields' = f
                /\ UNCHANGED caught
                /\ IF BodyInvalid(f)
                   THEN /\ hpc' = "done"
                        /\ hresp' = Reply(400, JsonStringify(ErrorObject(Str(MissingMessage))))
                   ELSE /\ hpc' = "body_validated"
                        /\ UNCHANGED hresp
    /\ UNCHANGED <<avars, apiKey, origin, event, modelCalls, modelRequest, modelResult,
                   credRead, serverLog, cvars>>

\* Lines 109-123: the prompt is chosen and generateContent is called.
InvokeModel ==
    /\ hpc = "body_validated"
    /\ modelCalls' = modelCalls + 1
    /\ modelRequest' = [data |-> fields.base64ImageData,
                        mimeType |-> fields.mimeType,
                        text |-> PromptFor(fields.style)]
    /\ hpc' = "model_invoked"
    /\ UNCHANGED <<avars, apiKey, origin, event, fields, caught, modelResult, hresp,
                   credRead, bodyParsed, serverLog, cvars>>

\* The await of line 112 resolves: the external model answers.
ModelReturns ==
    /\ hpc = "model_invoked"
    /\ \E r \in ModelResponses : modelResult' = r
    /\ hpc' = "model_returned"
    /\ UNCHANGED <<avars, apiKey, origin, event, fields, caught, modelCalls, modelRequest,
                   hresp, credRead, bodyParsed, serverLog, cvars>>

\* The await of line 112 rejects: contacting the external model failed.
ModelThrows ==
    /\ hpc = "model_invoked"
    /\ \E e \in ModelErrors : caught' = e
    /\ hpc' = "caught"
    /\ UNCHANGED <<avars, apiKey, origin, event, fields, modelCalls, modelRequest,
                   modelResult, hresp, credRead, bodyParsed, serverLog, cvars>>

\* Lines 125-138: the scan of response.candidates[0].content.parts.  Reading
\* candidates[0] of a response without candidates, or iterating parts that are
\* not there, throws a TypeError.
MapResponse ==
    /\ hpc = "model_returned"
    /\ IF modelResult.shape = "parts"
       THEN /\ hresp' = MappedReply(modelResult.parts)
            /\ hpc' = "done"
            /\ UNCHANGED caught
       ELSE /\ caught' = UndefTypeErr
            /\ hpc' = "caught"
            /\ UNCHANGED hresp
    /\ UNCHANGED <<avars, apiKey, origin, event, fields, modelCalls, modelRequest,
                   modelResult, credRead, bodyParsed, serverLog, cvars>>

\* Mutant of CatchError: a failed model call is tried once more.
CatchErrorRetry ==
    /\ hpc = "caught"
    /\ serverLog' = caught
    /\ IF modelCalls = 1
       THEN hpc' = "body_validated" /\ UNCHANGED hresp
       ELSE hpc' = "done" /\ hresp' = Reply(500, JsonStringify(ErrorObject(Str(InternalMessage))))
    /\ UNCHANGED <<avars, apiKey, origin, event, fields, caught, modelCalls, modelRequest,
                   modelResult, credRead, bodyParsed, cvars>>

\* Lines 140-146: the catch block logs the exception and answers.
CatchError ==
    /\ hpc = "caught"
    /\ serverLog' = caught
    /\ hresp' = CatchReply(caught)
    /\ hpc' = "done"
    /\ UNCHANGED <<avars, apiKey, origin, event, fields, caught, modelCalls, modelRequest,
                   modelResult, credRead, bodyParsed, cvars>>

----------------------------------------------------------------------------
(* The Relay Client: transformImage, src/services/geminiService.ts:4-38.   *)

\* The arguments the application passes: an encoded image, its media type and
\* a TransformStyle.
ClientImages == {"aW1n"}
ClientMimes == {"image/png", "image/jpeg"}
Styles == {"lofi", "cutout"}

ParseFailedMessage == "Failed to process the transformation on the server."
UnknownMessage == "An unknown error occurred during image transformation."

\* `Server responded with status: ${response.status}`
StatusMessage(status) == "Server responded with status: " \o ToString(status)

\* Response.ok
Ok(status) == status \in 200..299

\* What a server other than the handler (a gateway, the platform) can answer.
ResponseVals == {Undef, Null, Str(""), Str("Quota exceeded"), Str("ZDE="), Num("0"), Num("5")}
ForeignStatuses == {200, 201, 400, 405, 500, 502}
ForeignBodies ==
    {EmptyBody, TextBody("<html>Bad Gateway</html>"), NullBody, PrimitiveBody}
    \cup {JsonStringify([k \in Keys |-> CASE k = "error" -> e
                                          [] k = "transformedBase64" -> d
                                          [] OTHER -> Undef]) :
            e \in ResponseVals, d \in ResponseVals}

\* What fetch can reject with.
FetchErrors == {Err("TypeError", "Failed to fetch"), NonError}

\* The request of lines 6-16.
ClientRequest(a) ==
    [httpMethod |-> "POST",
     body |-> JsonStringify(RequestObject(Str(a.base64ImageData), Str(a.mimeType),
                                          Str(a.style)))]

\* Mutant of NotOkThrown: the body is not read, the status makes the message.
NotOkThrownStatusOnly(resp) == Err("Error", "Server responded with status: " \o ToString(resp.status))

\* Lines 18-21: what the block for a response that is not ok throws.
\* response.json() rejecting is replaced by the fallback object; reading
\* .error of null throws a TypeError.
NotOkThrown(resp) ==
    LET parsed == JsonParse(resp.body)
        error == IF parsed.threw THEN Str(ParseFailedMessage) ELSE parsed.obj["error"]
    IN  IF ~parsed.threw /\ parsed.isNull
        THEN NullTypeErr
        ELSE Err("Error", IF Truthy(error) THEN ToStr(error)
                          ELSE StatusMessage(resp.status))

\* Mutant of OkResult: result.transformedBase64 is returned as it is.
OkResultUnchecked(resp) ==
    LET parsed == JsonParse(resp.body)
    IN  CASE parsed.threw -> [threw |-> TRUE, error |-> parsed.error, value |-> Undef]
          [] parsed.isNull -> [threw |-> TRUE, error |-> Err("TypeError", "Cannot read properties of null"), value |-> Undef]
          [] OTHER -> [threw |-> FALSE, error |-> NoErr,
                       value |-> parsed.obj["transformedBase64"]]

\* Lines 23-29: what the code after an ok response does: it throws (json()
\* rejects, or result is null), returns result.transformedBase64, or returns null.
OkResult(resp) ==
    LET parsed == JsonParse(resp.body)
        data == parsed.obj["transformedBase64"]
    IN  CASE parsed.threw -> [threw |-> TRUE, error |-> parsed.error, value |-> Undef]
          [] parsed.isNull -> [threw |-> TRUE, error |-> NullTypeErr, value |-> Undef]
          [] OTHER -> [threw |-> FALSE, error |-> NoErr,
                       value |-> IF Truthy(data) THEN data ELSE Null]

\* Lines 33-36: the message of the error the catch block throws.
RethrownMessage(error) == IF error.isError THEN error.message ELSE UnknownMessage

\* The application calls transformImage; fetch is called (line 6).
CallTransformImage(b, m, s) ==
    /\ HandlerAtRest
    /\ ClientAtRest
    /\ cargs' = [base64ImageData |-> b, mimeType |-> m, style |-> s]
    /\ cpc' = "fetching"
    /\ fetchCount' = 1
    /\ response' = NoResponse
    /\ cerr' = NoErr
    /\ outcome' = Pending
    /\ errorsRaised' = 0
    /\ HandlerIdle
    /\ UNCHANGED apiKey

\* transformImage is called by something other than App.
TransformImageCall ==
    /\ AppUntouched
    /\ \E b \in ClientImages, m \in ClientMimes, s \in Styles :
          CallTransformImage(b, m, s)
    /\ UNCHANGED avars

\* The request of transformImage reaches the handler.
ServeClient ==
    /\ cpc = "fetching"
    /\ hpc = "idle"
    /\ event' = ClientRequest(cargs)
    /\ hpc' = "received"
    /\ origin' = "client"
    /\ HandlerFresh
    /\ UNCHANGED <<avars, apiKey, cvars>>

\* The handler's return value arrives as the Response of fetch.
DeliverResponse ==
    /\ cpc = "fetching"
    /\ hpc = "done"
    /\ origin = "client"
    /\ response' = [ok |-> Ok(hresp.statusCode), status |-> hresp.statusCode,
                    body |-> hresp.body]
    /\ cpc' = "responded"
    /\ UNCHANGED <<avars, apiKey, hvars, cargs, fetchCount, cerr, outcome, errorsRaised>>

\* Something other than the handler answers the request.
ForeignResponse ==
    /\ cpc = "fetching"
    /\ hpc = "idle"
    /\ \E st \in ForeignStatuses, b \in ForeignBodies :
          response' = [ok |-> Ok(st), status |-> st, body |-> b]
    /\ cpc' = "responded"
    /\ UNCHANGED <<avars, apiKey, hvars, cargs, fetchCount, cerr, outcome, errorsRaised>>

\* fetch rejects: the request or its response is lost.
FetchRejects ==
    /\ cpc = "fetching"
    /\ HandlerAtRest
    /\ \E e \in FetchErrors : cerr' = e
    /\ cpc' = "caught"
    /\ UNCHANGED <<avars, apiKey, hvars, cargs, fetchCount, response, outcome, errorsRaised>>

\* Lines 18-21: the response is not ok.
HandleNotOk ==
    /\ cpc = "responded"
    /\ ~response.ok
    /\ cerr' = NotOkThrown(response)
    /\ cpc' = "caught"
    /\ UNCHANGED <<avars, apiKey, hvars, cargs, fetchCount, response, outcome, errorsRaised>>

\* Lines 23-29: the response is ok.
HandleOk ==
    /\ cpc = "responded"
    /\ response.ok
    /\ LET r == OkResult(response)
       IN  IF r.threw
           THEN /\ cerr' = r.error
                /\ cpc' = "caught"
                /\ UNCHANGED outcome
           ELSE /\ outcome' = [kind |-> "return", value |-> r.value, message |-> ""]
                /\ cpc' = "returned"
                /\ UNCHANGED cerr
    /\ UNCHANGED <<avars, apiKey, hvars, cargs, fetchCount, response, errorsRaised>>

\* Lines 31-37: the catch block throws a new Error.
Rethrow ==
    /\ cpc = "caught"
    /\ outcome' = [kind |-> "throw", value |-> Undef, message |-> RethrownMessage(cerr)]
    /\ errorsRaised' = errorsRaised + 1
    /\ cpc' = "threw"
    /\ UNCHANGED <<avars, apiKey, hvars, cargs, fetchCount, response, cerr>>

----------------------------------------------------------------------------
(* The application: App, src/services/geminiService.ts:51-174.             *)

InvalidFileMessage == "Invalid file format"
CouldNotTransformMessage == "The AI couldn't transform the image. Please try another one."
AppUnknownMessage == "An unknown error occurred."

\* Mutant of LoaderShown: the page is rendered while a transform is loading.
LoaderNever == FALSE

\* Line 137: while loading, the Loader is all that is rendered.
LoaderShown == appState = "loading"

\* Line 141: UploadSplash, with its Select Image button.
UploadSplashShown == ~LoaderShown /\ originalImage = NoFile

\* Line 143: ResultDisplay, with its Start Over button.
ResultDisplayShown ==
    /\ ~LoaderShown
    /\ originalImage # NoFile
    /\ appState = "displaying" /\ Truthy(transformedImage)

\* Line 150: PreviewAndTransform, with the style buttons, Change Photo and
\* Transform.
PreviewShown ==
    /\ ~LoaderShown
    /\ originalImage # NoFile
    /\ ~(appState = "displaying" /\ Truthy(transformedImage))

\* FileReader.readAsDataURL, split at the comma (lines 54-57): the words of
\* "data:<type>;base64" and the encoded content.
ReadAsDataURL(file) ==
    [mimePart |-> <<"data", file.type, "base64">>, base64Part |-> file.data]

\* fileToBase64, lines 51-67, when the reader loads.
FileToBase64(file) ==
    LET result == ReadAsDataURL(file)
    IN  IF result.mimePart = <<>> \/ result.base64Part = ""
        THEN [ok |-> FALSE, error |-> Err("Error", InvalidFileMessage),
              base64 |-> "", mimeType |-> ""]
        ELSE [ok |-> TRUE, error |-> NoErr,
              base64 |-> result.base64Part, mimeType |-> result.mimePart[2]]

\* Mutant of ResultMissing: a null result is taken for an image.
ResultNeverMissing(value) == FALSE

\* Line 101: !transformedBase64
ResultMissing(value) == ~Truthy(value)

\* Line 109: error instanceof Error ? error.message : 'An unknown error occurred.'
CaughtMessage(error) == IF error.isError THEN error.message ELSE AppUnknownMessage

\* Line 105: `data:image/png;base64,${transformedBase64}`
ResultUrl(value) == Str("data:image/png;base64," \o ToStr(value))

\* Lines 107-111: the catch block of handleTransform; the invocation ends.
ShowError(error) ==
    /\ errorMessage' = CaughtMessage(error)
    /\ appState' = "error"
    /\ tpc' = "idle"
    /\ captured' = NoCapture
    /\ outstanding' = outstanding - 1
    /\ UNCHANGED <<originalImage, transformedImage, selectedStyle>>

\* Lines 78-85: a file was chosen in the dialog that Select Image or Change
\* Photo opened.
HandleFileChange ==
    /\ UploadSplashShown \/ PreviewShown
    /\ HandlerAtRest
    /\ ClientAtRest
    /\ \E file \in Files : originalImage' = file
    /\ transformedImage' = Null
    /\ appState' = "idle"
    /\ HandlerIdle
    /\ ClientIdle
    /\ UNCHANGED <<apiKey, errorMessage, selectedStyle, tpc, captured, outstanding>>

\* Line 158: onStyleChange={setSelectedStyle}
SetSelectedStyle ==
    /\ PreviewShown
    /\ \E st \in Styles : selectedStyle' = st
    /\ UNCHANGED <<apiKey, hvars, cvars, originalImage, transformedImage, appState,
                   errorMessage, tpc, captured, outstanding>>

\* Lines 91-98: Transform is clicked; handleTransform runs up to its first
\* await.
HandleTransform ==
    /\ PreviewShown
    /\ originalImage # NoFile
    /\ appState' = "loading"
    /\ errorMessage' = ""
    /\ tpc' = "encoding"
    /\ captured' = [image |-> originalImage, style |-> selectedStyle]
    /\ outstanding' = outstanding + 1
    /\ UNCHANGED <<apiKey, hvars, cvars, originalImage, transformedImage, selectedStyle>>

\* Lines 98-99: fileToBase64 resolves and transformImage is called.
EncoderResolves ==
    /\ tpc = "encoding"
    /\ LET r == FileToBase64(captured.image)
       IN  /\ r.ok
           /\ CallTransformImage(r.base64, r.mimeType, captured.style)
    /\ tpc' = "transforming"
    /\ UNCHANGED <<originalImage, transformedImage, appState, errorMessage,
                   selectedStyle, captured, outstanding>>

\* Line 98: fileToBase64 rejects, with 'Invalid file format' (line 59) or
\* with the reader's error event (line 65), which is no Error.
EncoderRejects ==
    /\ tpc = "encoding"
    /\ LET r == FileToBase64(captured.image)
       IN  \/ ~r.ok /\ ShowError(r.error)
           \/ ShowError(NonError)
    /\ UNCHANGED <<apiKey, hvars, cvars>>

\* Lines 99-111: transformImage settles; the result is shown, or the error.
TransformSettles ==
    /\ tpc = "transforming"
    /\ cpc \in {"returned", "threw"}
    /\ IF outcome.kind = "throw"
       THEN ShowError(Err("Error", outcome.message))
       ELSE IF ResultMissing(outcome.value)
            THEN ShowError(Err("Error", CouldNotTransformMessage))
            ELSE /\ transformedImage' = ResultUrl(outcome.value)
                 /\ appState' = "displaying"
                 /\ tpc' = "idle"
                 /\ captured' = NoCapture
                 /\ outstanding' = outstanding - 1
                 /\ UNCHANGED <<originalImage, errorMessage, selectedStyle>>
    /\ HandlerIdle
    /\ ClientIdle
    /\ UNCHANGED apiKey

\* Lines 114-122: Start Over.
HandleReset ==
    /\ ResultDisplayShown
    /\ originalImage' = NoFile
    /\ transformedImage' = Null
    /\ appState' = "idle"
    /\ errorMessage' = ""
    /\ UNCHANGED <<apiKey, hvars, cvars, selectedStyle, tpc, captured, outstanding>>

----------------------------------------------------------------------------

Init ==
    /\ apiKey \in ApiKeys
    /\ hpc = "idle"
    /\ origin = "none"
    /\ event = NoEvent
    /\ fields = NoFields
    /\ caught = NoErr
    /\ modelCalls = 0
    /\ modelRequest = NoModelRequest
    /\ modelResult = NoModelResult
    /\ hresp = NoReply
    /\ credRead = FALSE
    /\ bodyParsed = FALSE
    /\ serverLog = NoErr
    /\ cpc = "idle"
    /\ cargs = NoArgs
    /\ fetchCount = 0
    /\ response = NoResponse
    /\ cerr = NoErr
    /\ outcome = Pending
    /\ errorsRaised = 0
    /\ AppInit

Next ==
    \/ DirectRequest
    \/ CheckMethod
    \/ CheckCredential
    \/ ValidateBody
    \/ InvokeModel
    \/ ModelReturns
    \/ ModelThrows
    \/ MapResponse
    \/ CatchError
    \/ TransformImageCall
    \/ ServeClient
    \/ DeliverResponse
    \/ ForeignResponse
    \/ FetchRejects
    \/ HandleNotOk
    \/ HandleOk
    \/ Rethrow
    \/ HandleFileChange
    \/ SetSelectedStyle
    \/ HandleTransform
    \/ EncoderResolves
    \/ EncoderRejects
    \/ TransformSettles
    \/ HandleReset

Spec == Init /\ [][Next]_vars

----------------------------------------------------------------------------
(* The request and the reply as a caller sees them.                        *)

IsPost == event.httpMethod = "POST"
KeyPresent == apiKey \notin {Undef, Str("")}
Serving == hpc # "idle"
Answered == hpc = "done"

\* The body of the request, read as JSON.
SentBody == IF event.body.kind = "empty" THEN JsonStringify(EmptyObject) ELSE event.body
SentIsJson == SentBody.kind \in {"primitive", "object"}
Sent(k) == Lookup(SentBody.members, k)
Present(x) == x \notin {Undef, Null, Str(""), Num("0")}

\* The fields of the reply's JSON body.
Replied(k) == Lookup(hresp.body.members, k)
RepliedError == hresp.body.kind = "object" /\ Replied("error").t = "string"
                /\ Replied("error").v # ""

----------------------------------------------------------------------------
(* Claims about the Relay Service.                                         *)

\* C1 (as stated): a POST request with the credential present, image data and
\* media type given and a style other than 'lofi' and 'cutout' is answered
\* with status 400 and an error field, and the external model is never called.
C1_UnknownStyleRejected ==
    (/\ Serving /\ IsPost /\ KeyPresent /\ SentIsJson
     /\ Present(Sent("base64ImageData")) /\ Present(Sent("mimeType"))
     /\ Sent("style") \notin {Str("lofi"), Str("cutout")})
    => /\ modelCalls = 0
       /\ Answered => (hresp.statusCode = 400 /\ RepliedError)

\* C2 (as stated): with the credential absent every request, whatever its
\* method and body, gets the same configuration-error reply (status 500) and
\* the external model is not called.
C2_EveryRequestConfigError ==
    (Serving /\ ~KeyPresent)
    => /\ modelCalls = 0
       /\ Answered =>
            hresp = Reply(500, JsonStringify(ErrorObject(Str(ConfigErrorMessage))))

\* C2 (amended): with the credential absent every POST request, whatever its
\* body, gets the same configuration-error reply (status 500, one message),
\* the body is not parsed and the external model is not called; a request of
\* another method gets 405, also without a call of the model.
C2_EveryPostConfigError ==
    (Serving /\ ~KeyPresent)
    => /\ modelCalls = 0
       /\ ~bodyParsed
       /\ Answered =>
            IF IsPost
            THEN hresp = Reply(500, JsonStringify(ErrorObject(Str(ConfigErrorMessage))))
            ELSE hresp.statusCode = 405

\* C2 witness: a POST request with a complete body was answered while the
\* credential was absent.
C2_Witness ==
    /\ Answered /\ ~KeyPresent /\ IsPost /\ origin = "direct"
    /\ Sent("base64ImageData") = Str("aW1n") /\ Sent("mimeType") = Str("image/png")
    /\ Sent("style") = Str("lofi")
    /\ hresp.statusCode = 500

\* C3: a request whose method is not POST is answered with 405 at once: the
\* credential is not read, the body is not parsed, the model is not called,
\* whatever the body and the credential.
C3_MethodNotAllowed ==
    (Serving /\ ~IsPost)
    => /\ hpc \in {"received", "done"}
       /\ ~credRead
       /\ ~bodyParsed
       /\ modelCalls = 0
       /\ Answered => hresp = Reply(405, TextBody("Method Not Allowed"))

\* C3 witness: a PUT request with a complete body was answered with 405 while
\* the credential was present.
C3_Witness ==
    /\ Answered /\ event.httpMethod = "PUT" /\ KeyPresent
    /\ Sent("base64ImageData") = Str("aW1n") /\ Sent("mimeType") = Str("image/png")
    /\ Sent("style") = Str("cutout")
    /\ hresp.statusCode = 405

\* C4: a POST request with the credential present whose parsed body lacks, or
\* has empty, one of base64ImageData, mimeType and style is answered with 400
\* and a descriptive message, and the external model is not called.
C4_MissingFieldRejected ==
    (/\ Serving /\ IsPost /\ KeyPresent /\ SentIsJson
     /\ \E k \in {"base64ImageData", "mimeType", "style"} : ~Present(Sent(k)))
    => /\ modelCalls = 0
       /\ Answered =>
            /\ hresp.statusCode = 400
            /\ RepliedError
            /\ Replied("error") = Str(MissingMessage)

\* C4 witness: a POST request that lacks only an (empty) mimeType was answered.
C4_Witness ==
    /\ Answered /\ IsPost /\ KeyPresent
    /\ Sent("base64ImageData") = Str("aW1n") /\ Sent("mimeType") = Str("")
    /\ Sent("style") = Str("lofi")
    /\ hresp.statusCode = 400

\* C5: when the model call returns a list of parts, the reply is 200 with
\* transformedBase64 equal to the data of the first part in order that carries
\* inline data; with no such part (the empty list included) it is 500 with the
\* 'did not return an image' message, which is not the generic message of a
\* thrown model call.
C5_FirstInlinePartWins ==
    (Answered /\ modelResult.shape = "parts")
    => LET ps == modelResult.parts
       IN  IF \E i \in DOMAIN ps : ps[i].hasInlineData
           THEN /\ hresp.statusCode = 200
                /\ hresp.body.kind = "object"
                /\ \E i \in DOMAIN ps :
                      /\ ps[i].hasInlineData
                      /\ \A j \in DOMAIN ps : j < i => ~ps[j].hasInlineData
                      /\ Replied("transformedBase64") = ps[i].data
           ELSE /\ hresp.statusCode = 500
                /\ Replied("error") = Str(NoImageMessage)
                /\ Replied("error") # Str(InternalMessage)

\* C5 witness: the model returned two parts with different inline data and the
\* reply carries the first.
C5_Witness ==
    /\ Answered /\ modelResult.shape = "parts" /\ Len(modelResult.parts) = 2
    /\ modelResult.parts[1] = Part(TRUE, Str("ZDE="))
    /\ modelResult.parts[2] = Part(TRUE, Str("ZDI="))
    /\ hresp.statusCode = 200

\* C6: whenever contacting the external model raises an exception (a network,
\* quota or authentication failure, or a response without candidates), the
\* reply is 500 with one fixed generic message: the same body for every
\* exception, with nothing of the exception in it; the exception is logged.
C6_ModelFailureIsGeneric ==
    (Answered /\ modelCalls = 1 /\ caught.isError)
    => /\ hresp = Reply(500, JsonStringify(ErrorObject(Str(InternalMessage))))
       /\ Replied("error").v # caught.message
       /\ serverLog = caught

\* C6 witness: the model call failed for quota and the request was answered.
C6_Witness ==
    /\ Answered /\ modelCalls = 1
    /\ caught = Err("ApiError", "429 quota exceeded")
    /\ hresp.statusCode = 500

\* C9: per request the external model is called at most once: once when the
\* method is POST, the credential is present and the body passes validation,
\* never otherwise; every step of the handler moves to a later stage, so that
\* after the call the request goes straight to a reply of status 200, 400, 405
\* or 500; transformImage calls fetch exactly once per invocation.
StageRank(pc) ==
    CASE pc = "idle" -> 0
      [] pc = "received" -> 1
      [] pc = "method_checked" -> 2
      [] pc = "credential_checked" -> 3
      [] pc = "body_validated" -> 4
      [] pc = "model_invoked" -> 5
      [] pc = "model_returned" -> 6
      [] pc = "caught" -> 7
      [] pc = "done" -> 8

PassesValidation ==
    /\ SentIsJson
    /\ \A k \in {"base64ImageData", "mimeType", "style"} : Present(Sent(k))

C9_OneCallNoRetry ==
    /\ [](/\ modelCalls <= 1
          /\ Answered =>
                /\ modelCalls = IF IsPost /\ KeyPresent /\ PassesValidation THEN 1 ELSE 0
                /\ hresp.statusCode \in {200, 400, 405, 500}
          /\ hpc \in {"model_invoked", "model_returned"} => modelCalls = 1
          /\ cpc \in {"returned", "threw"} => fetchCount = 1
          /\ fetchCount <= 1)
    /\ [][/\ hpc' # hpc =>
                \/ StageRank(hpc') > StageRank(hpc)
                \/ hpc \in {"idle", "done"} /\ hpc' \in {"idle", "received"}
          /\ hpc' = hpc => modelCalls' = modelCalls
          /\ cpc' = cpc => fetchCount' = fetchCount]_vars

\* C9 witness: the model call threw and the request was answered after that
\* one call.
C9_Witness ==
    /\ Answered /\ modelCalls = 1 /\ caught \in ModelErrors
    /\ hresp.statusCode = 500
    /\ cpc = "fetching" /\ fetchCount = 1

\* C10 (as stated): a POST request, credential present, whose body cannot be
\* parsed as a JSON object is answered with a 400-class status, and the
\* external model is not called.
C10_MalformedBodyIs400 ==
    (Serving /\ IsPost /\ KeyPresent /\ SentBody.kind # "object")
    => /\ modelCalls = 0
       /\ Answered => hresp.statusCode \in 400..499

----------------------------------------------------------------------------
(* Claims about the Relay Client.                                          *)

Settled == cpc \in {"returned", "threw"}
Arrived == response.status # 0
Received(k) == Lookup(response.body.members, k)
ReceivedIsJson == response.body.kind \in {"primitive", "object"}

----------------------------------------------------------------------------
(* Claims about the application.                                           *)

Loading == appState = "loading"
Running == tpc # "idle"

C12_TransformsSerialized ==
    /\ [](/\ outstanding = IF Loading THEN 1 ELSE 0
          /\ Loading =>
                /\ ~ENABLED HandleTransform
                /\ ~ENABLED HandleFileChange
                /\ ~ENABLED HandleReset
                /\ ~ENABLED SetSelectedStyle
                /\ captured = [image |-> originalImage, style |-> selectedStyle]
          /\ (tpc = "transforming") =>
                /\ cpc # "idle"
                /\ cargs = [base64ImageData |-> originalImage.data,
                            mimeType |-> originalImage.type,
                            style |-> selectedStyle])
    /\ [][Loading =>
            /\ originalImage' = originalImage
            /\ selectedStyle' = selectedStyle
            /\ outstanding' <= outstanding
            /\ fetchCount' <= 1]_vars

\* C12 witness: after the cutout style was chosen, a transform of the JPEG
\* file is under way and its one request is sent.
C12_Witness ==
    /\ Loading /\ tpc = "transforming" /\ cpc = "fetching" /\ outstanding = 1
    /\ originalImage = File("image/jpeg", "aW1n")
    /\ selectedStyle = "cutout"
    /\ cargs.style = "cutout" /\ cargs.mimeType = "image/jpeg"

====
